---- MODULE Spec2Model ----
(***************************************************************************)
(* Model of resc's rule engine: the configuration loader (conf.rs), the    *)
(* rules (rules.rs) and the rule sets (ruleset.rs).                        *)
(*                                                                         *)
(* Strings are sequences of atoms (a character, or an identifier taken as  *)
(* one atom), Option<T> is a sequence of length 0 (None) or 1 (Some), and  *)
(* RescResult<T> is a record [ok, val] or [ok, err].                       *)
(***************************************************************************)
EXTENDS Integers, Sequences, FiniteSets, TLC

\* ---------------------------------------------------------------- bounds

\* Longest task string popped from the input queue.
MaxTaskLen == 2
\* Longest "rules" array of a watcher in the configuration.
MaxRules == 2
\* Most property maps one fetch returns.
MaxFetch == 2
\* Longest "watchers" array of the configuration.
MaxWatchers == 2

\* ------------------------------------------------------- values and types

None == <<>>
Some(x) == <<x>>

Ok(v) == [ok |-> TRUE, val |-> v]
Err(e) == [ok |-> FALSE, err |-> e]

SeqsUpTo(S, n) == UNION {[1..k -> S] : k \in 0..n}

\* A HashMap<String, String>: a function from its keys.
EmptyMap == [k \in {} |-> <<>>]
hm_insert(m, k, v) == [x \in DOMAIN m \cup {k} |-> IF x = k THEN v ELSE m[x]]

\* serde_json::Value
Null == [t |-> "null"]
Str(s) == [t |-> "str", v |-> s]
Num(n) == [t |-> "num", v |-> n]
Arr(a) == [t |-> "arr", v |-> a]
Obj(f) == [t |-> "obj", v |-> f]

\* &self[c]: Null when self is no object or has no such key.
Index(val, c) == IF val.t = "obj" /\ c \in DOMAIN val.v THEN val.v[c] ELSE Null

\* ------------------------------------------------------------------ regex

Chars == {"x", "y"}
Matchers == Chars \cup {"."}

\* Regex::new on a pattern made of literals and one-character groups,
\*   item ::= c | "(" [ "?P<" name ">" ] c ")" [ "?" ]      c ::= x | y | .
\* A malformed group and a group name used twice do not compile.
RECURSIVE regex_parse(_, _, _)
regex_parse(src, i, items) ==
    IF i > Len(src) THEN Ok(items)
    ELSE IF src[i] = "(" THEN
        LET named == i + 3 <= Len(src) /\ src[i + 1] = "?P<" /\ src[i + 3] = ">"
            j == IF named THEN i + 4 ELSE i + 1
            closed == j + 1 <= Len(src) /\ src[j] \in Matchers /\ src[j + 1] = ")"
            opt == j + 2 <= Len(src) /\ src[j + 2] = "?"
            nm == IF named THEN Some(src[i + 2]) ELSE None
        IN  IF ~closed THEN Err("unclosed group")
            ELSE IF named /\ \E k \in 1..Len(items) : items[k].name = nm
                 THEN Err("duplicate capture group name")
            ELSE regex_parse(src, IF opt THEN j + 3 ELSE j + 2,
                     Append(items, [name |-> nm, ch |-> src[j], opt |-> opt, cap |-> TRUE]))
    ELSE IF src[i] \in Matchers THEN
        regex_parse(src, i + 1,
            Append(items, [name |-> None, ch |-> src[i], opt |-> FALSE, cap |-> FALSE]))
    ELSE Err("unexpected token")

\* The names of the capture groups, group 0 (the whole match, unnamed) first.
RECURSIVE group_names(_, _)
group_names(items, k) ==
    IF k > Len(items) THEN <<>>
    ELSE (IF items[k].cap THEN <<items[k].name>> ELSE <<>>) \o group_names(items, k + 1)

Regex_new(src) ==
    LET p == regex_parse(src, 1, <<>>)
    IN  IF p.ok THEN Ok([items |-> p.val, names |-> <<None>> \o group_names(p.val, 1)])
        ELSE p

\* The items from k on matched at pos: None, or Some of what each item took
\* (Some(character) or None), preferring to take (greedy) and backtracking.
RECURSIVE match_at(_, _, _, _)
match_at(items, k, task, pos) ==
    IF k > Len(items) THEN Some(<<>>)
    ELSE LET it == items[k]
             hit == pos <= Len(task) /\ (it.ch = "." \/ task[pos] = it.ch)
             take == IF hit THEN match_at(items, k + 1, task, pos + 1) ELSE None
             skip == IF it.opt THEN match_at(items, k + 1, task, pos) ELSE None
         IN  IF take # None THEN Some(<<Some(task[pos])>> \o take[1])
             ELSE IF skip # None THEN Some(<<None>> \o skip[1])
             ELSE None

\* The leftmost match, searched from start position s.
RECURSIVE find_at(_, _, _)
find_at(re, task, s) ==
    IF s > Len(task) + 1 THEN None
    ELSE LET m == match_at(re.items, 1, task, s)
         IN  IF m # None THEN Some([start |-> s, took |-> m[1]])
             ELSE find_at(re, task, s + 1)

\* Regex::is_match: the pattern matches anywhere in the task.
regex_is_match(re, task) == find_at(re, task, 1) # None

RECURSIVE group_values(_, _, _)
group_values(items, took, k) ==
    IF k > Len(items) THEN <<>>
    ELSE (IF items[k].cap
          THEN <<IF took[k] = None THEN None ELSE Some(<<took[k][1]>>)>>
          ELSE <<>>) \o group_values(items, took, k + 1)

RECURSIVE taken_count(_, _)
taken_count(took, k) ==
    IF k > Len(took) THEN 0
    ELSE (IF took[k] = None THEN 0 ELSE 1) + taken_count(took, k + 1)

\* Regex::captures: None, or Some of the text of every group (group 0 first),
\* None for a group that did not participate.
regex_captures(re, task) ==
    LET f == find_at(re, task, 1)
    IN  IF f = None THEN None
        ELSE LET n == taken_count(f[1].took, 1)
             IN  Some(<<Some(SubSeq(task, f[1].start, f[1].start + n - 1))>>
                      \o group_values(re.items, f[1].took, 1))

\* Captures::name: the text of the group of that name.
caps_name(re, caps, name) ==
    IF \E i \in 1..Len(re.names) : re.names[i] = Some(name)
    THEN caps[CHOOSE i \in 1..Len(re.names) : re.names[i] = Some(name)]
    ELSE None

\* --------------------------------------------------------------- patterns

Pattern(src) == [src |-> src]

\* Pattern::inject: every ${name} whose name is a key of props is replaced
\* by its value; anything else stays as written.
RECURSIVE inject_from(_, _, _)
inject_from(src, props, i) ==
    IF i > Len(src) THEN <<>>
    ELSE IF /\ src[i] = "$"
            /\ i + 3 <= Len(src)
            /\ src[i + 1] = "{"
            /\ src[i + 3] = "}"
            /\ src[i + 2] \in DOMAIN props
         THEN props[src[i + 2]] \o inject_from(src, props, i + 4)
    ELSE <<src[i]>> \o inject_from(src, props, i + 1)

inject(pattern, props) == inject_from(pattern.src, props, 1)

\* The set of a result: absent when the rule has no set pattern.
inject_set(make_set, props) ==
    IF make_set = None THEN None ELSE Some(inject(make_set[1], props))

\* ---------------------------------------------------------- configuration

get_string(val, c) ==
    IF Index(val, c).t = "str" THEN Ok(Index(val, c).v) ELSE Err(<<"Missing", c>>)

get_l2_string(val, c1, c2) ==
    IF Index(Index(val, c1), c2).t = "str"
    THEN Ok(Index(Index(val, c1), c2).v)
    ELSE Err(<<"Missing", c1, c2>>)

\* A loop that converts every element of an array, pushes it to a Vec and
\* returns at the first element that fails (the ? in the loop): the first
\* error, or the values in their order.
collect(rs) ==
    IF \E i \in 1..Len(rs) : ~rs[i].ok
    THEN rs[CHOOSE i \in 1..Len(rs) : ~rs[i].ok /\ \A j \in 1..(i - 1) : rs[j].ok]
    ELSE Ok([i \in 1..Len(rs) |-> rs[i].val])

\* as_fetcher, from the two strings it reads.
fetcher_of(url_pattern, returns) ==
    IF ~url_pattern.ok THEN url_pattern
    ELSE IF ~returns.ok THEN returns
    ELSE Ok([url |-> Pattern(url_pattern.val), returns |-> returns.val])

as_fetcher(val) == fetcher_of(get_string(val, "url"), get_string(val, "returns"))

\* The "fetch" array of a rule, when it is one.
as_fetchers(val) ==
    IF Index(val, "fetch").t = "arr"
    THEN collect([i \in 1..Len(Index(val, "fetch").v) |-> as_fetcher(Index(val, "fetch").v[i])])
    ELSE Ok(<<>>)

rule_name(val) ==
    IF Index(val, "name").t = "str" THEN Index(val, "name").v
    ELSE <<"<anonymous rule>">>

make_task_of(val) ==
    Pattern(IF Index(Index(val, "make"), "task").t = "str"
            THEN Index(Index(val, "make"), "task").v
            ELSE <<"$", "{", "input_task", "}">>)

\* A set pattern that defaults to the empty pattern.
make_set_default(val) ==
    IF Index(Index(val, "make"), "set").t = "str"
    THEN Ok(Some(Pattern(Index(Index(val, "make"), "set").v)))
    ELSE IF Index(Index(val, "make"), "set").t = "null" THEN Ok(Some(Pattern(<<>>)))
    ELSE Err(<<"invalid make/set in rule">>)

make_set_of(val) ==
    IF Index(Index(val, "make"), "set").t = "str"
    THEN Ok(Some(Pattern(Index(Index(val, "make"), "set").v)))
    ELSE IF Index(Index(val, "make"), "set").t = "null" THEN Ok(None)
    ELSE Err(<<"invalid make/set in rule">>)

\* as_rule from make/queue on.
rule_make(val, on_regex, fetchers, make_queue, make_set) ==
    IF make_queue.t # "str" THEN Err(<<"missing make/queue string in rule">>)
    ELSE IF ~make_set.ok THEN make_set
    ELSE Ok([name |-> rule_name(val),
             on_regex |-> on_regex,
             fetchers |-> fetchers,
             make_task |-> make_task_of(val),
             make_queue |-> Pattern(make_queue.v),
             make_set |-> make_set.val])

\* as_rule from the fetchers on.
rule_fetch(val, on_regex, fetchers) ==
    IF ~fetchers.ok THEN fetchers
    ELSE rule_make(val, on_regex, fetchers.val,
                   Index(Index(val, "make"), "queue"), make_set_of(val))

\* as_rule from the compiled pattern on.
rule_regex(val, on_regex) ==
    IF ~on_regex.ok THEN Err(<<"invalid on/done pattern">>)
    ELSE rule_fetch(val, on_regex.val, as_fetchers(val))

\* as_rule from the "on" string on.
rule_on(val, on_pattern) ==
    IF ~on_pattern.ok THEN on_pattern
    ELSE rule_regex(val, Regex_new(on_pattern.val))

as_rule(val) == rule_on(val, get_string(val, "on"))

RECURSIVE keep_ok(_, _)
keep_ok(rs, i) ==
    IF i > Len(rs) THEN <<>>
    ELSE (IF rs[i].ok THEN <<rs[i].val>> ELSE <<>>) \o keep_ok(rs, i + 1)

\* A loop that drops the rules that fail to construct.
as_rules_lenient(vals) == Ok(keep_ok([i \in 1..Len(vals) |-> as_rule(vals[i])], 1))

\* The loop over the "rules" array of a watcher.
as_rules(vals) == collect([i \in 1..Len(vals) |-> as_rule(vals[i])])

taken_queue_of(val, input_queue) ==
    IF Index(val, "taken_queue").t = "str" THEN Index(val, "taken_queue").v
    ELSE input_queue \o <<"/taken">>

\* as_watcher from the rules on.
watcher_rules(val, redis_url, listener_channel, input_queue, rules) ==
    IF ~rules.ok THEN rules
    ELSE Ok([redis_url |-> redis_url,
             listener_channel |-> listener_channel,
             input_queue |-> input_queue,
             taken_queue |-> taken_queue_of(val, input_queue),
             ruleset |-> [rules |-> rules.val]])

\* as_watcher from the "input_queue" string on.
watcher_in(val, redis_url, listener_channel, input_queue) ==
    IF ~input_queue.ok THEN input_queue
    ELSE IF Index(val, "rules").t # "arr" THEN Err(<<"no global_ruleset/rules array">>)
    ELSE watcher_rules(val, redis_url, listener_channel, input_queue.val,
                       as_rules(Index(val, "rules").v))

as_watcher(val, redis_url, listener_channel) ==
    watcher_in(val, redis_url, listener_channel, get_string(val, "input_queue"))

\* The loop over the "watchers" array.
as_watchers(vals, redis_url, listener_channel) ==
    collect([i \in 1..Len(vals) |-> as_watcher(vals[i], redis_url, listener_channel)])

\* as_conf from the watchers on.
conf_watchers(watchers) ==
    IF ~watchers.ok THEN watchers ELSE Ok([watchers |-> watchers.val])

\* as_conf from the "listener_channel" string on.
conf_channel(val, redis_url, listener_channel) ==
    IF ~listener_channel.ok THEN listener_channel
    ELSE IF Index(val, "watchers").t # "arr" THEN Err(<<"no watchers array">>)
    ELSE conf_watchers(as_watchers(Index(val, "watchers").v, redis_url,
                                   listener_channel.val))

\* as_conf from the redis url on. The warning logged for a global task_set
\* changes no state.
conf_url(val, redis_url) ==
    IF ~redis_url.ok THEN redis_url
    ELSE conf_channel(val, redis_url.val, get_string(val, "listener_channel"))

as_conf(val) == conf_url(val, get_l2_string(val, "redis", "url"))

\* ------------------------------------------------------------------ rules

\* A map that also gives the empty string to the groups that did not match.
RECURSIVE named_props_all(_, _, _, _)
named_props_all(re, caps, i, props) ==
    IF i > Len(re.names) THEN props
    ELSE LET groupname == re.names[i]
         IN  named_props_all(re, caps, i + 1,
                 IF groupname = None THEN props
                 ELSE IF caps_name(re, caps, groupname[1]) = None
                      THEN hm_insert(props, groupname[1], <<>>)
                 ELSE hm_insert(props, groupname[1], caps_name(re, caps, groupname[1])[1]))

\* The loop over capture_names: one entry per named group that matched.
RECURSIVE named_props(_, _, _, _)
named_props(re, caps, i, props) ==
    IF i > Len(re.names) THEN props
    ELSE LET groupname == re.names[i]
         IN  named_props(re, caps, i + 1,
                 IF groupname # None /\ caps_name(re, caps, groupname[1]) # None
                 THEN hm_insert(props, groupname[1], caps_name(re, caps, groupname[1])[1])
                 ELSE props)

is_match(rule, task) == regex_is_match(rule.on_regex, task)

result(rule, props) ==
    [task |-> inject(rule.make_task, props),
     queue |-> inject(rule.make_queue, props),
     set |-> inject_set(rule.make_set, props)]

\* A merge that keeps the fetched value of a key both maps define.
overlay_keep(fetched, props) ==
    [k \in DOMAIN fetched \cup DOMAIN props |->
        IF k \in DOMAIN fetched THEN fetched[k] ELSE props[k]]

\* "we inject the parent properties": every entry of props is inserted into
\* the fetched map.
overlay(fetched, props) ==
    [k \in DOMAIN fetched \cup DOMAIN props |->
        IF k \in DOMAIN props THEN props[k] ELSE fetched[k]]

\* A fetch given the last merged map instead of the properties of the match.
fetch_arg_accum(l) ==
    IF l.used # <<>> /\ l.used[Len(l.used)] # <<>>
    THEN l.used[Len(l.used)][Len(l.used[Len(l.used)])]
    ELSE l.props

\* fetcher.results(&props): what the fetcher is given.
fetch_arg(l) == l.props

\* Results that hold the descriptors of the last fetcher only.
push_replace(results, new) == new

\* results.push, for every map a fetcher returned, in their order.
push_results(results, new) == results \o new

\* An error that ends the call with the results computed so far.
swallow(l, resp) ==
    [l EXCEPT !.pc = "done", !.ret = Some(Ok(l.results)), !.resps = Append(@, resp)]

\* The ? on fetcher.results: the error is returned, the results are dropped.
propagate(l, resp) ==
    [l EXCEPT !.pc = "done", !.ret = Some(Err(resp.err)), !.resps = Append(@, resp)]

\* The locals of a call that has not begun. args, resps and used record what
\* the call passed to fetch, got from fetch and passed to result.
IdleCall ==
    [pc |-> "idle", ref |-> [w |-> 0, r |-> 0], task |-> <<>>, props |-> EmptyMap,
     fi |-> 0, results |-> <<>>, ret |-> None,
     args |-> <<>>, resps |-> <<>>, used |-> <<>>]

\* Rule::results up to its first fetch, or to its return when the rule has
\* no fetcher.
results_begin(rule, ref, task) ==
    LET caps == regex_captures(rule.on_regex, task)[1]
        props == named_props(rule.on_regex, caps, 1, EmptyMap)
        l == [IdleCall EXCEPT !.ref = ref, !.task = task, !.props = props]
    IN  IF Len(rule.fetchers) > 0
        THEN [l EXCEPT !.pc = "fetch", !.fi = 1, !.args = <<fetch_arg(l)>>]
        ELSE [l EXCEPT !.pc = "done",
                       !.results = <<result(rule, props)>>,
                       !.ret = Some(Ok(<<result(rule, props)>>)),
                       !.used = <<<<props>>>>]

\* Rule::results from the return of a fetch to the next fetch, or to its
\* return after the last fetcher.
results_resume(rule, l, resp) ==
    IF ~resp.ok THEN propagate(l, resp)
    ELSE LET merged == [j \in 1..Len(resp.val) |-> overlay(resp.val[j].props, l.props)]
             new == [j \in 1..Len(resp.val) |-> result(rule, merged[j])]
             l1 == [l EXCEPT !.results = push_results(@, new),
                             !.used = Append(@, merged),
                             !.resps = Append(@, resp)]
         IN  IF l.fi < Len(rule.fetchers)
             THEN [l1 EXCEPT !.fi = @ + 1, !.args = Append(@, fetch_arg(l1))]
             ELSE [l1 EXCEPT !.pc = "done", !.ret = Some(Ok(l1.results))]

\* --------------------------------------------------------------- rulesets

RECURSIVE filter_first(_, _, _)
filter_first(rules, task, i) ==
    IF i > Len(rules) THEN <<>>
    ELSE IF is_match(rules[i], task) THEN <<i>>
    ELSE filter_first(rules, task, i + 1)

\* A selection that stops at the first rule that matches.
matching_rules_first(ruleset, task) == filter_first(ruleset.rules, task, 1)

\* iter().filter(): the references are the indices of the rules.
RECURSIVE filter_from(_, _, _)
filter_from(rules, task, i) ==
    IF i > Len(rules) THEN <<>>
    ELSE (IF is_match(rules[i], task) THEN <<i>> ELSE <<>>)
         \o filter_from(rules, task, i + 1)

matching_rules(ruleset, task) == filter_from(ruleset.rules, task, 1)

\* ----------------------------------------------------------------- inputs

\* The task strings a watcher pops from its input queue.
Tasks == SeqsUpTo(Chars, MaxTaskLen)

FetcherValue ==
    Obj([url |-> Str(<<"h", "$", "{", "a", "}">>), returns |-> Str(<<"list">>)])

\* (?P<a>x)(?P<b>y)?(.)? without fetcher: ${a}-${b} to queue q, no set.
RuleA ==
    Obj([name |-> Str(<<"n">>),
         on |-> Str(<<"(", "?P<", "a", ">", "x", ")",
                      "(", "?P<", "b", ">", "y", ")", "?",
                      "(", ".", ")", "?">>),
         make |-> Obj([task |-> Str(<<"$", "{", "a", "}", "-", "$", "{", "b", "}">>),
                       queue |-> Str(<<"q">>)])])

\* (.)(?P<b>y)? with one fetcher: no task pattern, queue ${r}, set s${b}.
RuleB ==
    Obj([name |-> Str(<<"n">>),
         on |-> Str(<<"(", ".", ")", "(", "?P<", "b", ">", "y", ")", "?">>),
         fetch |-> Arr(<<FetcherValue>>),
         make |-> Obj([queue |-> Str(<<"$", "{", "r", "}">>),
                       set |-> Str(<<"s", "$", "{", "b", "}">>)])])

\* (?P<a>y)(?P<b>.)? with two fetchers and no name: ${a}${r} to queue q,
\* set null.
RuleC ==
    Obj([on |-> Str(<<"(", "?P<", "a", ">", "y", ")",
                      "(", "?P<", "b", ">", ".", ")", "?">>),
         fetch |-> Arr(<<FetcherValue, FetcherValue>>),
         make |-> Obj([task |-> Str(<<"$", "{", "a", "}", "$", "{", "r", "}">>),
                       queue |-> Str(<<"q">>),
                       set |-> Null])])

GoodRuleValues == {RuleA, RuleB, RuleC}

\* One rule for each way a rule fails to construct.
BadRuleValues ==
    {Obj([name |-> Str(<<"n">>), make |-> Obj([queue |-> Str(<<"q">>)])]),
     Obj([on |-> Str(<<"(", "?P<", "a", ">", "x", ")", "(", "?P<", "a", ">", "y", ")">>),
          make |-> Obj([queue |-> Str(<<"q">>)])]),
     Obj([on |-> Str(<<"x">>), make |-> Obj([task |-> Str(<<"t">>)])]),
     Obj([on |-> Str(<<"x">>), make |-> Obj([queue |-> Str(<<"q">>), set |-> Num(1)])]),
     Obj([on |-> Str(<<"x">>),
          fetch |-> Arr(<<FetcherValue, Obj([returns |-> Str(<<"list">>)])>>),
          make |-> Obj([queue |-> Str(<<"q">>)])]),
     Obj([on |-> Str(<<"x">>),
          fetch |-> Arr(<<Obj([url |-> Str(<<"h">>)])>>),
          make |-> Obj([queue |-> Str(<<"q">>)])])}

RuleValues == GoodRuleValues \cup BadRuleValues

WatcherValue(rules) == Obj([input_queue |-> Str(<<"in">>), rules |-> Arr(rules)])

GoodWatcherValue ==
    Obj([input_queue |-> Str(<<"in">>), taken_queue |-> Str(<<"tk">>),
         rules |-> Arr(<<RuleA>>)])

WatcherValues ==
    {WatcherValue(rules) : rules \in SeqsUpTo(RuleValues, MaxRules)}
    \cup {Obj([rules |-> Arr(<<RuleA>>)]), Obj([input_queue |-> Str(<<"in">>)])}

ConfValue(watchers) ==
    Obj([redis |-> Obj([url |-> Str(<<"u">>)]),
         listener_channel |-> Str(<<"c">>),
         watchers |-> Arr(watchers)])

\* The configurations read: any watcher at any place of a "watchers" array
\* whose other watchers are good, and the roots that lack a mandatory field.
ConfValues ==
    {ConfValue([i \in 1..n |-> IF i = p THEN w ELSE GoodWatcherValue]) :
        <<n, p, w>> \in {x \in (1..MaxWatchers) \X (1..MaxWatchers) \X WatcherValues :
                            x[2] <= x[1]}}
    \cup {ConfValue(<<>>),
          Obj([listener_channel |-> Str(<<"c">>), watchers |-> Arr(<<>>)]),
          Obj([redis |-> Obj([url |-> Str(<<"u">>)]), watchers |-> Arr(<<>>)]),
          Obj([redis |-> Obj([url |-> Str(<<"u">>)]), listener_channel |-> Str(<<"c">>),
               task_set |-> Str(<<"s">>)])}

\* The configurations of the engine: one watcher whose rules all construct.
EngineConfValues ==
    {ConfValue(<<WatcherValue(rules)>>) : rules \in SeqsUpTo(GoodRuleValues, MaxRules)}

\* The configurations with one rule, shared by the concurrent callers.
SharedConfValues == {ConfValue(<<WatcherValue(<<rv>>)>>) : rv \in GoodRuleValues}

\* What a fetcher may answer: an error, or up to MaxFetch property maps.
FetchMaps == {[a |-> <<>>, r |-> <<"e">>], [r |-> <<"u">>]}
FetchErrors == {<<"network">>, <<"parse">>}
FetchResponses ==
    {Err(e) : e \in FetchErrors}
    \cup {Ok(s) : s \in SeqsUpTo({[props |-> m] : m \in FetchMaps}, MaxFetch)}

\* The answers to the concurrent callers hold one map at most.
SharedResponses == {resp \in FetchResponses : resp.ok => Len(resp.val) <= 1}

Callers == {1, 2}

\* ------------------------------------------------------------------ state

VARIABLES
    json,   \* the parsed configuration file (the root Value)
    conf,   \* None, or Some of what as_conf returned
    loop,   \* the watcher's loop: the task taken and the rules selected for it
    calls   \* the locals of each caller's call of Rule::results

vars == <<json, conf, loop, calls>>

IdleLoop == [pc |-> "idle", w |-> 0, task |-> <<>>, matching |-> <<>>, k |-> 0]

TheRule(ref) == conf[1].val.watchers[ref.w].ruleset.rules[ref.r]

\* The locals a call reads: its own.
frame_shared(cs, c) ==
    IF \E o \in DOMAIN cs : o # c /\ cs[o].pc # "idle"
    THEN [cs[c] EXCEPT !.props = cs[CHOOSE o \in DOMAIN cs : o # c /\ cs[o].pc # "idle"].props]
    ELSE cs[c]

frame(cs, c) == cs[c]

\* read_file: the configuration is converted, whole or not at all.
Load ==
    /\ conf = None
    /\ conf' = Some(as_conf(json))
    /\ UNCHANGED <<json, loop, calls>>

\* The watcher takes a task and selects the rules matching it.
Take(w, task) ==
    /\ conf # None /\ conf[1].ok
    /\ loop.pc = "idle"
    /\ w \in 1..Len(conf[1].val.watchers)
    /\ loop' = [pc |-> "handle", w |-> w, task |-> task,
                matching |-> matching_rules(conf[1].val.watchers[w].ruleset, task),
                k |-> 1]
    /\ UNCHANGED <<json, conf, calls>>

\* The watcher calls results on the next selected rule.
Call(c) ==
    /\ loop.pc = "handle"
    /\ loop.k <= Len(loop.matching)
    /\ calls[c].pc = "idle"
    /\ LET ref == [w |-> loop.w, r |-> loop.matching[loop.k]]
       IN  calls' = [calls EXCEPT ![c] = results_begin(TheRule(ref), ref, loop.task)]
    /\ UNCHANGED <<json, conf, loop>>

\* A fetch returns to the call waiting for it.
FetchReturn(c, resp) ==
    /\ calls[c].pc = "fetch"
    /\ calls' = [calls EXCEPT
                   ![c] = results_resume(TheRule(calls[c].ref), frame(calls, c), resp)]
    /\ UNCHANGED <<json, conf, loop>>

\* The watcher takes the results and goes to the next selected rule.
Return(c) ==
    /\ loop.pc = "handle"
    /\ calls[c].pc = "done"
    /\ calls' = [calls EXCEPT ![c] = IdleCall]
    /\ loop' = [loop EXCEPT !.k = @ + 1]
    /\ UNCHANGED <<json, conf>>

\* Every selected rule is done: the watcher waits for the next task.
Finish ==
    /\ loop.pc = "handle"
    /\ loop.k > Len(loop.matching)
    /\ loop' = IdleLoop
    /\ UNCHANGED <<json, conf, calls>>

\* A caller calls results on the shared rule with a task matching it.
CallShared(c, task) ==
    /\ calls[c].pc = "idle"
    /\ is_match(TheRule([w |-> 1, r |-> 1]), task)
    /\ calls' = [calls EXCEPT
                   ![c] = results_begin(TheRule([w |-> 1, r |-> 1]), [w |-> 1, r |-> 1], task)]
    /\ UNCHANGED <<json, conf, loop>>

\* The engine: one watcher's loop over a constructed configuration.
Init ==
    /\ json \in EngineConfValues
    /\ conf = Some(as_conf(json))
    /\ loop = IdleLoop
    /\ calls = [c \in Callers |-> IdleCall]

Next ==
    \/ \E task \in Tasks : Take(1, task)
    \/ Call(1)
    \/ \E resp \in FetchResponses : FetchReturn(1, resp)
    \/ Return(1)
    \/ Finish

Spec == Init /\ [][Next]_vars

\* Concurrent calls of results on one rule.
InitShared ==
    /\ json \in SharedConfValues
    /\ conf = Some(as_conf(json))
    /\ loop = IdleLoop
    /\ calls = [c \in Callers |-> IdleCall]

NextShared ==
    \/ \E c \in Callers, task \in Tasks : CallShared(c, task)
    \/ \E c \in Callers, resp \in SharedResponses : FetchReturn(c, resp)

SpecShared == InitShared /\ [][NextShared]_vars

\* The loading of a configuration file.
InitLoad ==
    /\ json \in ConfValues
    /\ conf = None
    /\ loop = IdleLoop
    /\ calls = [c \in Callers |-> IdleCall]

NextLoad == Load

SpecLoad == InitLoad /\ [][NextLoad]_vars

\* ------------------------------------------------------------- properties

\* The rule value a call's rule was constructed from.
JsonRule(ref) == Index(Index(json, "watchers").v[ref.w], "rules").v[ref.r]

\* The properties of a match, stated on the captures: one entry for each
\* named group that took part in the match, holding the text it matched.
BaseOf(rule, task) ==
    LET re == rule.on_regex
        caps == regex_captures(re, task)[1]
        P == {i \in 1..Len(re.names) : re.names[i] # None /\ caps[i] # None}
    IN  [n \in {re.names[i][1] : i \in P} |->
            caps[CHOOSE i \in P : re.names[i][1] = n][1]]

RECURSIVE Flat(_)
Flat(ss) == IF ss = <<>> THEN <<>> ELSE Head(ss) \o Flat(Tail(ss))

\* The number of maps the fetchers before the k-th returned.
RECURSIVE Before(_, _)
Before(used, k) == IF k <= 1 THEN 0 ELSE Before(used, k - 1) + Len(used[k - 1])

\* C1: in every map merged from a fetched map and the properties of the
\* match, a key of the match holds the value of the match, whatever the
\* fetched map holds for it, a key the fetched map alone defines keeps its
\* fetched value, and the descriptor is rendered from that merged map.
C1_BasePrecedence ==
    \A c \in Callers :
        \A k \in 1..Len(calls[c].used) :
            k <= Len(calls[c].resps) =>
                \A j \in 1..Len(calls[c].used[k]) :
                    LET fetched == calls[c].resps[k].val[j].props
                        base == BaseOf(TheRule(calls[c].ref), calls[c].task)
                        merged == calls[c].used[k][j]
                    IN  /\ DOMAIN merged = DOMAIN fetched \cup DOMAIN base
                        /\ \A key \in DOMAIN base : merged[key] = base[key]
                        /\ \A key \in DOMAIN fetched \ DOMAIN base :
                               merged[key] = fetched[key]
                        /\ calls[c].results[Before(calls[c].used, k) + j]
                               = result(TheRule(calls[c].ref), merged)

C1_Witness ==
    \E c \in Callers :
        /\ calls[c].pc = "done" /\ calls[c].ret[1].ok
        /\ \E k \in 1..Len(calls[c].resps) : \E j \in 1..Len(calls[c].used[k]) :
               LET fetched == calls[c].resps[k].val[j].props
                   base == BaseOf(TheRule(calls[c].ref), calls[c].task)
               IN  /\ \E key \in DOMAIN fetched \cap DOMAIN base : fetched[key] # base[key]
                   /\ DOMAIN fetched \ DOMAIN base # {}

\* C2: a call on a rule with two fetchers that returned N and M maps returns
\* N+M descriptors: those of the first fetcher's maps, in their order, then
\* those of the second fetcher's maps.
C2_Concatenation ==
    \A c \in Callers :
        (/\ calls[c].pc = "done"
         /\ Len(TheRule(calls[c].ref).fetchers) = 2
         /\ Len(calls[c].resps) = 2
         /\ calls[c].resps[1].ok /\ calls[c].resps[2].ok)
        => LET rule == TheRule(calls[c].ref)
               base == BaseOf(rule, calls[c].task)
               first == calls[c].resps[1].val
               second == calls[c].resps[2].val
               out == calls[c].ret[1]
           IN  /\ out.ok
               /\ Len(out.val) = Len(first) + Len(second)
               /\ \A i \in 1..Len(first) :
                      out.val[i] = result(rule, overlay(first[i].props, base))
               /\ \A i \in 1..Len(second) :
                      out.val[Len(first) + i] = result(rule, overlay(second[i].props, base))

C2_Witness ==
    \E c \in Callers :
        /\ calls[c].pc = "done"
        /\ Len(calls[c].resps) = 2
        /\ calls[c].resps[1].ok /\ calls[c].resps[2].ok
        /\ Len(calls[c].resps[1].val) = 1
        /\ Len(calls[c].resps[2].val) = 2
        /\ Len(calls[c].ret[1].val) = 3

\* C3: a call one of whose fetches failed has ended, and what it returns is
\* that failure alone, with no descriptor.
C3_NoPartialResult ==
    \A c \in Callers :
        \A k \in 1..Len(calls[c].resps) :
            ~calls[c].resps[k].ok =>
                /\ calls[c].pc = "done"
                /\ calls[c].ret = Some(Err(calls[c].resps[k].err))
                /\ DOMAIN calls[c].ret[1] = {"ok", "err"}

C3_Witness ==
    \E c \in Callers :
        /\ calls[c].pc = "done"
        /\ Len(calls[c].resps) = 2
        /\ ~calls[c].resps[2].ok
        /\ Len(calls[c].results) > 0
        /\ ~calls[c].ret[1].ok

\* C4: a call on a rule without fetcher returns one descriptor, rendered
\* from the map that holds the named groups that took part in the match
\* and nothing else.
C4_NoSourceOneResult ==
    \A c \in Callers :
        (calls[c].pc = "done" /\ Len(TheRule(calls[c].ref).fetchers) = 0)
        => LET rule == TheRule(calls[c].ref)
               base == BaseOf(rule, calls[c].task)
           IN  /\ calls[c].used = <<<<base>>>>
               /\ calls[c].ret =
                      Some(Ok(<<[task |-> inject(rule.make_task, base),
                                 queue |-> inject(rule.make_queue, base),
                                 set |-> inject_set(rule.make_set, base)]>>))

C4_Witness ==
    \E c \in Callers :
        /\ calls[c].pc = "done"
        /\ Len(TheRule(calls[c].ref).fetchers) = 0
        /\ LET re == TheRule(calls[c].ref).on_regex
               caps == regex_captures(re, calls[c].task)[1]
           IN  /\ \E i \in 1..Len(re.names) : re.names[i] # None /\ caps[i] = None
               /\ \E i \in 1..Len(re.names) : re.names[i] # None /\ caps[i] # None
               /\ \E i \in 2..Len(re.names) : re.names[i] = None
        /\ Len(calls[c].ret[1].val) = 1

\* C5: the rules selected for a task are the rules of the set that match
\* it, each once, in the order of the set.
C5_SelectAllInOrder ==
    loop.pc = "handle" =>
        LET rules == conf[1].val.watchers[loop.w].ruleset.rules
            m == loop.matching
        IN  /\ \A i \in 1..Len(rules) :
                   (\E k \in 1..Len(m) : m[k] = i)
                       <=> regex_is_match(rules[i].on_regex, loop.task)
            /\ \A k \in 1..Len(m) : m[k] \in 1..Len(rules)
            /\ \A k1, k2 \in 1..Len(m) : k1 < k2 => m[k1] < m[k2]

C5_Witness ==
    /\ loop.pc = "handle"
    /\ Len(loop.matching) = 2
    /\ LET rules == conf[1].val.watchers[loop.w].ruleset.rules
       IN  rules[1].name = rules[2].name

\* A rule value that fails to construct: no "on" string, an "on" pattern
\* that does not compile, no make/queue string, a make/set that is neither
\* a string nor null, or a fetcher without "url" or "returns" string.
RuleValueFails(rv) ==
    \/ Index(rv, "on").t # "str"
    \/ ~Regex_new(Index(rv, "on").v).ok
    \/ Index(Index(rv, "make"), "queue").t # "str"
    \/ Index(Index(rv, "make"), "set").t \notin {"str", "null"}
    \/ /\ Index(rv, "fetch").t = "arr"
       /\ \E f \in 1..Len(Index(rv, "fetch").v) :
              \/ Index(Index(rv, "fetch").v[f], "url").t # "str"
              \/ Index(Index(rv, "fetch").v[f], "returns").t # "str"

SomeRuleFails ==
    /\ Index(json, "watchers").t = "arr"
    /\ \E w \in 1..Len(Index(json, "watchers").v) :
           /\ Index(Index(json, "watchers").v[w], "rules").t = "arr"
           /\ \E r \in 1..Len(Index(Index(json, "watchers").v[w], "rules").v) :
                  RuleValueFails(Index(Index(json, "watchers").v[w], "rules").v[r])

\* C6: a configuration one of whose rules fails to construct loads as an
\* error and as nothing else.
C6_AllOrNothing ==
    (conf # None /\ SomeRuleFails) =>
        /\ ~conf[1].ok
        /\ DOMAIN conf[1] = {"ok", "err"}

C6_Witness ==
    /\ conf # None
    /\ ~conf[1].ok
    /\ Index(json, "watchers").t = "arr"
    /\ Len(Index(json, "watchers").v) = 2
    /\ Index(json, "watchers").v[1] = GoodWatcherValue
    /\ LET rules == Index(Index(json, "watchers").v[2], "rules")
       IN  /\ rules.t = "arr"
           /\ Len(rules.v) = 2
           /\ ~RuleValueFails(rules.v[1])
           /\ RuleValueFails(rules.v[2])

RECURSIVE replay(_, _, _, _)
replay(rule, l, resps, i) ==
    IF i > Len(resps) \/ l.pc # "fetch" THEN l
    ELSE replay(rule, results_resume(rule, l, resps[i]), resps, i + 1)

run_alone(rule, ref, task, resps) == replay(rule, results_begin(rule, ref, task), resps, 1)

AsAlone ==
    \A c \in Callers :
        calls[c].pc # "idle" =>
            calls[c] = run_alone(TheRule(calls[c].ref), calls[c].ref,
                                 calls[c].task, calls[c].resps)

\* C8: whatever the interleaving of the calls on one rule, each call is
\* where it would be had it run alone with the same answers to its fetches,
\* and no step changes the rule.
C8_NoInterference == [](AsAlone) /\ [][conf' = conf]_vars

C8_Witness ==
    /\ calls[1].pc = "fetch" /\ calls[2].pc = "fetch"
    /\ Len(calls[1].resps) = 1 /\ Len(calls[2].resps) = 1
    /\ calls[1].task # calls[2].task
    /\ calls[1].props # calls[2].props
    /\ calls[1].results # <<>> /\ calls[2].results # <<>>

\* C9: every fetch of a call is given the properties of the match.
C9_FetchGivenBase ==
    \A c \in Callers :
        \A k \in 1..Len(calls[c].args) :
            /\ calls[c].args[k] = BaseOf(TheRule(calls[c].ref), calls[c].task)
            /\ calls[c].args[k] = calls[c].args[1]

C9_Witness ==
    \E c \in Callers :
        /\ Len(calls[c].args) = 2
        /\ calls[c].used[1] # <<>>
        /\ calls[c].used[1][1] # calls[c].args[1]

\* C10: every descriptor of a rule configured without make/task has the
\* task that was given to the call.
C10_PassThrough ==
    \A c \in Callers :
        (/\ calls[c].pc = "done"
         /\ calls[c].ret[1].ok
         /\ Index(Index(JsonRule(calls[c].ref), "make"), "task").t # "str")
        => \A i \in 1..Len(calls[c].ret[1].val) :
               calls[c].ret[1].val[i].task = calls[c].task

====
